---- MODULE Spec2Model ----
(***************************************************************************)
(* The two Kalshi API clients of the repository:                           *)
(*   kalshi_complete.py          KalshiClient and the CLI entry point main *)
(*   kalshi_simple_dashboard.py  SimpleKalshiClient (paced, retry on 429)  *)
(*                                                                         *)
(* Python values: None is the string "None"; a JSON object or a params     *)
(* dict is a record with a field `keys` (the keys that are present) and    *)
(* one field per key the code reads; the value returned by a method is     *)
(* [isNone, val]. Time is counted in ticks of 0.5 s.                       *)
(***************************************************************************)
EXTENDS Integers, Sequences, FiniteSets, TLC

VARIABLES
    API_KEY,      \* kalshi_complete.py: module-level API_KEY
    mainPc,       \* position of main() ("off" when main is not run)
    server,       \* the /markets page the remote server serves for each cursor,
                  \* during the current get_markets call
    served,       \* the cursors whose page has been fixed by a first request
    op,           \* KalshiClient method of the current (or last) call
    pc,           \* "idle", "loop" (inside get_markets' while), "done"
    args,         \* arguments of the current call
    params,       \* get_markets: the params dict
    all_markets,  \* get_markets: the accumulated list
    cursor,       \* get_markets: the cursor local
    data,         \* the value self.get returned last
    result,       \* the value the method returned
    lastReq,      \* the last HTTP request the session sent (endpoint, params)
    nreq,         \* HTTP requests sent by the current call (saturates at MaxReq)
    nerr,         \* "API Error" lines printed by the current call
    now,          \* dashboard: wall clock (time.time()), in ticks
    last_request, \* dashboard: SimpleKalshiClient.last_request
    dpc,          \* dashboard: "idle", "retry" (recursive call pending), "returned"
    dcall,        \* dashboard: method, endpoint and params of the current call
    depth,        \* dashboard: nested safe_request frames of the current call
    dreqs,        \* dashboard: the HTTP requests of the current call, each with the
                  \* time since the dispatch before it
    dresps,       \* dashboard: the responses to the requests of the current call
    safe_ret,     \* dashboard: the value safe_request returned
    dresult,      \* dashboard: the value the calling method returned
    st_errors,    \* dashboard: st.error calls of the current call
    st_warnings,  \* dashboard: st.warning calls of the current call
    lastDispatch, \* dashboard: dispatch time of the latest HTTP request (-1: none)
    lastGap       \* dashboard: time between the latest two dispatches (-1: none)

cliVars == <<API_KEY, mainPc, server, served, op, pc, args, params, all_markets,
             cursor, data, result, lastReq, nreq, nerr>>
dashVars == <<now, last_request, dpc, dcall, depth, dreqs, dresps, safe_ret,
              dresult, st_errors, st_warnings, lastDispatch, lastGap>>
vars == <<cliVars, dashVars>>

----------------------------------------------------------------------------
\* Bounds of the model.
MaxPageLen == 2      \* items on one server page
MaxLimit == 2        \* largest `limit` a caller passes
MaxItems == 6        \* longest all_markets followed
MaxReq == 4          \* nreq saturates here
MaxLatency == 1      \* ticks between dispatch and response
MaxIdle == 1         \* ticks between two calls of the dashboard client
MaxTime == 16        \* the clock is followed up to here
RecursionLimit == 3  \* nested safe_request frames the interpreter allows

\* Program constants, in ticks of 0.5 s.
MinInterval == 1     \* 0.5 s
RetryWait == 6       \* 3 s

None == "None"
Tokens == {"c1", "c2"}
CursorVals == {None, ""} \cup Tokens
CursorKeys == {None} \cup Tokens   \* None: a request without a cursor parameter
Tickers == {None, "", "TKR"}
Statuses == {"open", "closed"}

\* Python truthiness of a str-or-None value (`if cursor`, `if ticker`, `if API_KEY`).
Truthy(v) == v # None /\ v # ""

Min(a, b) == IF a < b THEN a ELSE b

\* dict.get(key, default) on a JSON object / dict record.
DictGet(d, k, default) == IF k \in d.keys THEN d[k] ELSE default

\* d[k] = v
DictSet(d, k, v) == [d EXCEPT !.keys = @ \cup {k}, ![k] = v]

\* ---- JSON bodies of the /markets endpoint
Items(k, n) == [i \in 1..n |-> <<k, i>>]

MarketsBody(ks, ms, c) ==
    [keys |-> ks,
     markets |-> IF "markets" \in ks THEN ms ELSE <<>>,
     cursor |-> IF "cursor" \in ks THEN c ELSE None]

EmptyBody == MarketsBody({}, <<>>, None)

Pages(k) ==
    { MarketsBody(ks, Items(k, n), c) :
        ks \in SUBSET {"markets", "cursor"}, n \in 0..MaxPageLen, c \in CursorVals }

\* ---- the value self.get returns
NoneData == [isNone |-> TRUE, json |-> EmptyBody]
JsonData(body) == [isNone |-> FALSE, json |-> body]

\* `if data` / `if not data`: None and the empty JSON object are falsy.
DataTruthy(d) == ~d.isNone /\ d.json.keys # {}

\* ---- values a method returns
RetNone == [isNone |-> TRUE, val |-> <<>>]
Ret(v) == [isNone |-> FALSE, val |-> v]

NoParams ==
    [keys |-> {}, limit |-> 0, status |-> None, series_ticker |-> None,
     cursor |-> None, depth |-> 0, ticker |-> None]
NoArgs ==
    [limit |-> 0, status |-> None, series_ticker |-> None, ticker |-> None,
     depth |-> 0]
NoReq == [endpoint |-> <<>>, params |-> NoParams]

Bump(n) == Min(n + 1, MaxReq)

----------------------------------------------------------------------------
\* KalshiClient.get_markets

\* lines 47-52: the params dict built from the arguments
MarketsParams(limit, status, series_ticker) ==
    LET base == DictSet(DictSet(NoParams, "limit", limit), "status", status)
    IN  IF Truthy(series_ticker)
        THEN DictSet(base, "series_ticker", series_ticker)
        ELSE base

WithCursor_always(p, c) == DictSet(p, "cursor", c)

\* lines 58-59: `if cursor: params['cursor'] = cursor`
WithCursor(p, c) == IF Truthy(c) THEN DictSet(p, "cursor", c) ELSE p

LoopContinues_cursorOnly(c, markets, limit) == Truthy(c)

\* line 69, negated: the while loop goes round again
LoopContinues(c, markets, limit) == Truthy(c) /\ ~(Len(markets) < limit)

ReturnValue_empty(acc) == Ret(<<>>)

\* line 72: `return all_markets`
ReturnValue(acc) == Ret(acc)

\* The cursor key the server sees in a request.
RequestKey(p) == DictGet(p, "cursor", None)

\* lines 45-55: entry of get_markets, up to the while
get_markets_enter(limit, status, series_ticker) ==
    /\ op' = "get_markets"
    /\ pc' = "loop"
    /\ args' = [NoArgs EXCEPT !.limit = limit, !.status = status,
                              !.series_ticker = series_ticker]
    /\ params' = MarketsParams(limit, status, series_ticker)
    /\ all_markets' = <<>>
    /\ cursor' = None
    /\ data' = NoneData
    /\ result' = RetNone
    /\ nreq' = 0
    /\ nerr' = 0
    /\ server' = [k \in CursorKeys |-> EmptyBody]
    /\ served' = {}
    /\ UNCHANGED lastReq

get_markets(limit, status, series_ticker) ==
    /\ mainPc = "off"
    /\ pc # "loop"
    /\ get_markets_enter(limit, status, series_ticker)
    /\ UNCHANGED <<API_KEY, mainPc, dashVars>>

\* lines 57-72: one round of the while loop; `fails` is whether self.get
\* catches a RequestException (lines 41-43), `page` the page the server
\* serves when the cursor is requested for the first time.
get_markets_round(fails, page) ==
    LET p == WithCursor(params, cursor)
        k == RequestKey(p)
        body == IF k \in served THEN server[k] ELSE page
        d == IF fails THEN NoneData ELSE JsonData(body)
        markets == DictGet(d.json, "markets", <<>>)
        c == DictGet(d.json, "cursor", None)
    IN  /\ pc = "loop"
        /\ params' = p
        /\ lastReq' = [endpoint |-> <<"markets">>, params |-> p]
        /\ nreq' = Bump(nreq)
        /\ data' = d
        /\ IF fails
           THEN /\ nerr' = nerr + 1
                /\ UNCHANGED <<server, served>>
           ELSE /\ nerr' = nerr
                /\ server' = [server EXCEPT ![k] = body]
                /\ served' = served \cup {k}
        /\ IF ~DataTruthy(d)
           THEN /\ UNCHANGED <<all_markets, cursor>>
                /\ pc' = "done"
                /\ result' = ReturnValue(all_markets)
           ELSE /\ Len(all_markets) + Len(markets) <= MaxItems
                /\ all_markets' = all_markets \o markets
                /\ cursor' = c
                /\ IF LoopContinues(c, markets, args.limit)
                   THEN pc' = "loop" /\ UNCHANGED result
                   ELSE pc' = "done" /\ result' = ReturnValue(all_markets \o markets)
        /\ UNCHANGED <<API_KEY, mainPc, op, args, dashVars>>

get_markets_step ==
    \E fails \in BOOLEAN :
        \E page \in Pages(RequestKey(WithCursor(params, cursor))) :
            get_markets_round(fails, page)

----------------------------------------------------------------------------
\* KalshiClient's single-request methods. The JSON object of their endpoints
\* is a record with the key the method reads (and `cursor` for the trades).
\* The value under that key is a sequence: an array is the sequence of its
\* items, an object and null are the two one-element sequences below.
JsonNull == <<"null">>
JsonObject == <<"OBJ">>

Body(ks, key, v, c) ==
    [keys |-> ks,
     val |-> IF key \in ks THEN v ELSE JsonNull,
     cursor |-> IF "cursor" \in ks THEN c ELSE None]

\* {}, {"error": ..}, {key: v}, {key: v, "cursor": c}
Bodies(key, vals) ==
    { Body(ks, key, v, c) :
        ks \in {{}, {"error"}, {key}, {key, "cursor"}}, v \in vals, c \in {"c1"} }

ObjectVals == {JsonNull, JsonObject}         \* a JSON object, or null
ListVals == {<<>>, <<"x1">>, <<"x1", "x2">>}  \* a JSON array

\* dict.get(key) / dict.get(key, default) on such a body; a null value is None.
BodyGet(b, key, default) ==
    IF key \in b.keys
    THEN (IF b.val = JsonNull THEN RetNone ELSE Ret(b.val))
    ELSE default

\* lines 31-43: self.get sends one request; on a RequestException it prints
\* one "API Error" line and returns None.
get(endpoint, p, fails, body) ==
    /\ lastReq' = [endpoint |-> endpoint, params |-> p]
    /\ nreq' = 1
    /\ nerr' = IF fails THEN 1 ELSE 0
    /\ data' = IF fails THEN NoneData ELSE JsonData(body)

\* Where every single-request method ends; get_markets' locals of an earlier
\* call are gone.
single(name, a) ==
    /\ op' = name
    /\ args' = a
    /\ pc' = "done"
    /\ server' = [k \in CursorKeys |-> EmptyBody]
    /\ served' = {}
    /\ params' = NoParams
    /\ all_markets' = <<>>
    /\ cursor' = None

\* f'/markets/{ticker}', f'/markets/{ticker}/orderbook', f'/series/{ticker}'
MarketPath(ticker) == <<"markets", ticker>>
OrderbookPath(ticker) == <<"markets", ticker, "orderbook">>
TradesPath == <<"markets", "trades">>
SeriesPath(ticker) == IF Truthy(ticker) THEN <<"series", ticker>> ELSE <<"series">>

ObjectResult_emptyList(d, key) ==
    IF ~d.isNone /\ d.json.keys # {}
    THEN (IF key \in d.json.keys /\ d.json.val # JsonNull THEN Ret(d.json.val) ELSE RetNone)
    ELSE Ret(<<>>)

\* lines 77, 83, 98: `data.get(key) if data else None`
ObjectResult(d, key) ==
    IF DataTruthy(d) THEN BodyGet(d.json, key, RetNone) ELSE RetNone

ListResult_none(d, key) ==
    IF ~d.isNone /\ d.json.keys # {}
    THEN (IF key \in d.json.keys THEN Ret(d.json.val) ELSE Ret(<<>>))
    ELSE RetNone

\* lines 92, 101: `data.get(key, []) if data else []`
ListResult(d, key) ==
    IF DataTruthy(d) THEN BodyGet(d.json, key, Ret(<<>>)) ELSE Ret(<<>>)

\* lines 94-101: get_series returns one series for a ticker, else the list
SeriesResult(ticker, d) ==
    IF Truthy(ticker) THEN ObjectResult(d, "series") ELSE ListResult(d, "series")

\* lines 87-89: the params of get_trades
TradesParams(ticker, limit) ==
    LET base == DictSet(NoParams, "limit", limit)
    IN  IF Truthy(ticker) THEN DictSet(base, "ticker", ticker) ELSE base

\* lines 74-77
get_market_call(ticker, fails, body) ==
    /\ get(MarketPath(ticker), NoParams, fails, body)
    /\ result' = ObjectResult(data', "market")
    /\ single("get_market", [NoArgs EXCEPT !.ticker = ticker])

\* lines 79-83
get_orderbook_call(ticker, d, fails, body) ==
    /\ get(OrderbookPath(ticker), DictSet(NoParams, "depth", d), fails, body)
    /\ result' = ObjectResult(data', "orderbook")
    /\ single("get_orderbook", [NoArgs EXCEPT !.ticker = ticker, !.depth = d])

\* lines 85-92
get_trades_call(ticker, limit, fails, body) ==
    /\ get(TradesPath, TradesParams(ticker, limit), fails, body)
    /\ result' = ListResult(data', "trades")
    /\ single("get_trades", [NoArgs EXCEPT !.ticker = ticker, !.limit = limit])

\* lines 94-101
get_series_call(ticker, fails, body) ==
    /\ get(SeriesPath(ticker), NoParams, fails, body)
    /\ result' = SeriesResult(ticker, data')
    /\ single("get_series", [NoArgs EXCEPT !.ticker = ticker])

\* A caller other than main invokes a method when no call is running.
Callable == mainPc = "off" /\ pc # "loop"

get_market(ticker) ==
    /\ Callable
    /\ \E fails \in BOOLEAN, body \in Bodies("market", ObjectVals) :
          get_market_call(ticker, fails, body)
    /\ UNCHANGED <<API_KEY, mainPc, dashVars>>

get_orderbook(ticker, d) ==
    /\ Callable
    /\ \E fails \in BOOLEAN, body \in Bodies("orderbook", ObjectVals) :
          get_orderbook_call(ticker, d, fails, body)
    /\ UNCHANGED <<API_KEY, mainPc, dashVars>>

get_trades(ticker, limit) ==
    /\ Callable
    /\ \E fails \in BOOLEAN, body \in Bodies("trades", ListVals) :
          get_trades_call(ticker, limit, fails, body)
    /\ UNCHANGED <<API_KEY, mainPc, dashVars>>

get_series(ticker) ==
    /\ Callable
    /\ \E fails \in BOOLEAN,
          body \in Bodies("series", IF Truthy(ticker) THEN ObjectVals ELSE ListVals) :
          get_series_call(ticker, fails, body)
    /\ UNCHANGED <<API_KEY, mainPc, dashVars>>

----------------------------------------------------------------------------
\* kalshi_complete.py: main() and the demo steps it runs. mainPc names the
\* statement main is at; a step that calls get_markets waits in "<step>_wait"
\* until the call is done.

KeyMissing_unchecked(k) == FALSE

\* line 225: `if not API_KEY`
KeyMissing(k) == ~Truthy(k)

\* lines 223-228: display_welcome, then the API key check
main_start ==
    /\ mainPc = "start"
    /\ mainPc' = IF KeyMissing(API_KEY) THEN "returned" ELSE "run_quick_start"
    /\ UNCHANGED <<API_KEY, server, served, op, pc, args, params, all_markets,
                   cursor, data, result, lastReq, nreq, nerr, dashVars>>

\* lines 116, 133, 171: client.get_markets(limit=5 / 10 / 15)
main_get_markets(at, limit) ==
    /\ mainPc = at
    /\ get_markets_enter(limit, "open", None)
    /\ mainPc' = at \o "_wait"
    /\ UNCHANGED <<API_KEY, dashVars>>

run_quick_start == main_get_markets("run_quick_start", 5)
run_market_analysis == main_get_markets("run_market_analysis", 10)
run_visualization == main_get_markets("run_visualization", 15)

\* The statement main goes to when get_markets has returned `markets`:
\* line 135 `if not markets: return`, line 173 `if len(markets) < 3: return`.
AfterMarkets(at, markets) ==
    CASE at = "run_quick_start_wait" -> "run_market_analysis"
      [] at = "run_market_analysis_wait" ->
            IF markets = <<>> THEN "run_series_explorer" ELSE "analysis_orderbook"
      [] at = "run_visualization_wait" -> "completed"

\* lines 118-126, 135-144, 173-195: the step reads the markets it got; a
\* market without the field it prints raises, and main's guard (lines
\* 244-246) reports it and main ends.
main_markets_returned ==
    /\ mainPc \in {"run_quick_start_wait", "run_market_analysis_wait",
                   "run_visualization_wait"}
    /\ pc = "done"
    /\ \E raises \in BOOLEAN :
          mainPc' = IF raises /\ result.val # <<>>
                    THEN "error_reported"
                    ELSE AfterMarkets(mainPc, result.val)
    /\ pc' = "idle"
    /\ UNCHANGED <<API_KEY, server, served, op, args, params, all_markets,
                   cursor, data, result, lastReq, nreq, nerr, dashVars>>

\* line 147: client.get_orderbook(ticker, depth=5)
analysis_orderbook ==
    /\ mainPc = "analysis_orderbook"
    /\ \E fails \in BOOLEAN, body \in Bodies("orderbook", ObjectVals) :
          get_orderbook_call("TKR", 5, fails, body)
    /\ mainPc' = "analysis_trades"
    /\ UNCHANGED <<API_KEY, dashVars>>

\* line 159: client.get_trades(ticker, limit=10)
analysis_trades ==
    /\ mainPc = "analysis_trades"
    /\ \E fails \in BOOLEAN, body \in Bodies("trades", ListVals) :
          get_trades_call("TKR", 10, fails, body)
    /\ mainPc' = "run_series_explorer"
    /\ UNCHANGED <<API_KEY, dashVars>>

\* line 202: client.get_series()
run_series_explorer ==
    /\ mainPc = "run_series_explorer"
    /\ \E fails \in BOOLEAN, body \in Bodies("series", ListVals) :
          get_series_call(None, fails, body)
    /\ mainPc' = "run_visualization"
    /\ UNCHANGED <<API_KEY, dashVars>>

MainNext ==
    \/ main_start
    \/ run_quick_start
    \/ run_market_analysis
    \/ analysis_orderbook
    \/ analysis_trades
    \/ run_series_explorer
    \/ run_visualization
    \/ main_markets_returned
    \/ get_markets_step

----------------------------------------------------------------------------
\* kalshi_simple_dashboard.py: SimpleKalshiClient

Outcomes == {"ok", "bad_json", "429", "http_error", "transport_error"}

\* lines 24-26: the sleep before the request, given time.time() and last_request
PaceSleep(current_time, last) ==
    IF current_time - last < MinInterval
    THEN MinInterval - (current_time - last)
    ELSE 0

\* line 40 runs only when the response is neither a 429 nor an HTTP error
\* (raise_for_status passed); response.json() on line 41 may still raise.
StampsRequest(outcome) == outcome \in {"ok", "bad_json"}

SafeReturn_noBody(outcome, body) == NoneData

\* lines 39-45: the value safe_request returns for a response that ends it
SafeReturn(outcome, body) == IF outcome = "ok" THEN JsonData(body) ELSE NoneData

\* lines 43-44: st.error is called once for an exception
ReportsError(outcome) == outcome \in {"bad_json", "http_error", "transport_error"}

CanRecurse_never(d) == FALSE

\* line 37: the frame that got a 429 calls safe_request again, unless the
\* interpreter's recursion limit is reached: the call raises RecursionError.
CanRecurse(d) == d < RecursionLimit

\* lines 51, 56, 62: what the calling method makes of safe_request's value
DashResult(method, d) ==
    CASE method = "get_markets" -> ListResult(d, "markets")
      [] method = "get_orderbook" -> ObjectResult(d, "orderbook")
      [] method = "get_trades" -> ListResult(d, "trades")

DashBodies(method) ==
    CASE method = "get_markets" -> Bodies("markets", {<<"x1">>})
      [] method = "get_orderbook" -> Bodies("orderbook", {JsonObject})
      [] method = "get_trades" -> Bodies("trades", {<<"x1">>})

\* lines 20-45: one frame of safe_request(endpoint, p), the d-th of its call.
\* `idle` is the time since the client last did anything, `lat` the time
\* from dispatch to the response (or the exception), `w` the part of the 3 s
\* sleep done before a RecursionError is raised.
safe_request(method, endpoint, p, d, idle, outcome, lat, body, w) ==
    LET current_time == now + idle
        sent == current_time + PaceSleep(current_time, last_request)
        got == sent + lat
        ends == outcome # "429" \/ ~CanRecurse(d)
        ret == SafeReturn(outcome, body)
    IN  /\ dcall' = [method |-> method, endpoint |-> endpoint, params |-> p]
        /\ depth' = d
        /\ dreqs' = Append(IF d = 1 THEN <<>> ELSE dreqs,
                           [endpoint |-> endpoint, params |-> p,
                            gap |-> IF d = 1 THEN 0 ELSE sent - lastDispatch])
        /\ dresps' = Append(IF d = 1 THEN <<>> ELSE dresps,
                            [status |-> outcome, body |-> body])
        /\ lastGap' = IF lastDispatch = -1 THEN -1 ELSE sent - lastDispatch
        /\ lastDispatch' = sent
        /\ last_request' = IF StampsRequest(outcome) THEN got ELSE last_request
        /\ st_warnings' = (IF d = 1 THEN 0 ELSE st_warnings)
                          + (IF outcome = "429" THEN 1 ELSE 0)
        /\ st_errors' = (IF d = 1 THEN 0 ELSE st_errors)
                        + (IF ReportsError(outcome) \/ (outcome = "429" /\ ends)
                           THEN 1 ELSE 0)
        /\ now' = IF outcome = "429"
                  THEN got + (IF ends THEN w ELSE RetryWait)
                  ELSE got
        /\ now' <= MaxTime
        /\ dpc' = IF ends THEN "returned" ELSE "retry"
        /\ safe_ret' = IF ends THEN ret ELSE NoneData
        /\ dresult' = IF ends THEN DashResult(method, ret) ELSE RetNone
        /\ UNCHANGED cliVars

\* What the server and the interpreter may do to the d-th frame.
frame(method, endpoint, p, d, idle) ==
    \E outcome \in Outcomes, lat \in 0..MaxLatency :
        \E body \in IF outcome = "ok" THEN DashBodies(method) ELSE {Body({}, "", None, None)} :
            \E w \in IF outcome = "429" /\ ~CanRecurse(d) THEN {0, RetryWait} ELSE {0} :
                safe_request(method, endpoint, p, d, idle, outcome, lat, body, w)

\* A method of the client calls safe_request: the first frame.
dash_call(method, endpoint, p) ==
    /\ dpc # "retry"
    /\ \E idle \in 0..MaxIdle : frame(method, endpoint, p, 1, idle)

\* lines 47-51
dash_get_markets(limit) ==
    dash_call("get_markets", <<"markets">>,
              DictSet(DictSet(NoParams, "limit", Min(limit, 100)), "status", "open"))

\* lines 53-56
dash_get_orderbook(ticker) ==
    dash_call("get_orderbook", OrderbookPath(ticker), NoParams)

\* lines 58-62
dash_get_trades(limit) ==
    dash_call("get_trades", TradesPath, DictSet(NoParams, "limit", Min(limit, 50)))

\* line 37: the recursive call, after the 3 s sleep
dash_retry ==
    /\ dpc = "retry"
    /\ frame(dcall.method, dcall.endpoint, dcall.params, depth + 1, 0)

DashNext ==
    \/ \E limit \in {120} : dash_get_markets(limit)
    \/ dash_get_orderbook("TKR")
    \/ \E limit \in {10} : dash_get_trades(limit)
    \/ dash_retry

----------------------------------------------------------------------------
\* Only main reads API_KEY to decide anything (the dashboard shows it).
ApiKeys(m) == IF m = "start" THEN {None, "", "key"} ELSE {"key"}

InitState(m) ==
    /\ API_KEY \in ApiKeys(m)
    /\ mainPc = m
    /\ server = [k \in CursorKeys |-> EmptyBody]
    /\ served = {}
    /\ op = "none"
    /\ pc = "idle"
    /\ args = NoArgs
    /\ params = NoParams
    /\ all_markets = <<>>
    /\ cursor = None
    /\ data = NoneData
    /\ result = RetNone
    /\ lastReq = NoReq
    /\ nreq = 0
    /\ nerr = 0
    /\ now = MinInterval
    /\ last_request = 0
    /\ dpc = "idle"
    /\ dcall = [method |-> "none", endpoint |-> <<>>, params |-> NoParams]
    /\ depth = 0
    /\ dreqs = <<>>
    /\ dresps = <<>>
    /\ safe_ret = NoneData
    /\ dresult = RetNone
    /\ st_errors = 0
    /\ st_warnings = 0
    /\ lastDispatch = -1
    /\ lastGap = -1

\* KalshiClient used as a library: any method, any arguments.
Init == InitState("off")

Next ==
    \/ \E limit \in 0..MaxLimit, status \in Statuses, series_ticker \in {None, "", "KXS"} :
          get_markets(limit, status, series_ticker)
    \/ get_markets_step
    \/ \E ticker \in {"TKR"} : get_market(ticker)
    \/ \E ticker \in {"TKR"}, d \in 1..2 : get_orderbook(ticker, d)
    \/ \E ticker \in Tickers, limit \in 1..MaxLimit : get_trades(ticker, limit)
    \/ \E ticker \in Tickers : get_series(ticker)

Spec == Init /\ [][Next]_vars

\* The script run from the command line: main() from its first statement.
MainInit == InitState("start")
MainSpec == MainInit /\ [][MainNext]_vars

\* The dashboard's client: its three methods, called at any time.
DashSpec == Init /\ [][DashNext]_vars

\* get_trades of the two clients.
TradesNext ==
    \/ get_trades("TKR", MaxLimit)
    \/ dash_get_trades(60)
    \/ dash_retry

TradesSpec == Init /\ [][TradesNext]_vars

\* get_markets alone. KalshiClient is single-threaded and blocking: a call
\* that has entered its loop keeps going round it as long as each request
\* returns.
MarketsNext ==
    \/ \E limit \in 0..MaxLimit : get_markets(limit, "open", None)
    \/ get_markets_step

FairSpec == Init /\ [][MarketsNext]_vars /\ WF_vars(get_markets_step)
----------------------------------------------------------------------------
\* Properties of KalshiClient (checked under Spec).

\* The cursor and the items of a page, as a reader of the JSON sees them.
PageCursor(body) == IF "cursor" \in body.keys THEN body.cursor ELSE None
PageItems(body) == IF "markets" \in body.keys THEN body.markets ELSE <<>>

\* End of data: the page has no cursor (null, absent or empty) or has fewer
\* items than the requested limit.
EndOfData(body, limit) ==
    PageCursor(body) \in {None, ""} \/ Len(PageItems(body)) < limit

Fuel == Cardinality(CursorKeys) + 1

\* The pages from cursor k up to and including the first end-of-data page.
RECURSIVE PagesToEnd(_, _, _)
PagesToEnd(k, limit, fuel) ==
    IF fuel = 0 \/ k \notin CursorKeys
    THEN <<>>
    ELSE IF EndOfData(server[k], limit)
         THEN <<k>>
         ELSE <<k>> \o PagesToEnd(PageCursor(server[k]), limit, fuel - 1)

\* The first n pages of the cursor chain that starts at k.
RECURSIVE Chain(_, _)
Chain(k, n) ==
    IF n = 0 \/ k \notin CursorKeys
    THEN <<>>
    ELSE <<k>> \o Chain(PageCursor(server[k]), n - 1)

RECURSIVE ItemsOf(_)
ItemsOf(ks) ==
    IF ks = <<>> THEN <<>> ELSE PageItems(server[Head(ks)]) \o ItemsOf(Tail(ks))

GetMarketsDone == op = "get_markets" /\ pc = "done"

\* C1: a get_markets call whose requests all succeed fetches the pages of the
\* cursor chain up to and including the first end-of-data page, no page
\* more and no page less, and returns their items concatenated in page
\* order and in-page order.
C1_ConcatenationUpToEndOfData ==
    (GetMarketsDone /\ ~data.isNone) =>
        LET want == PagesToEnd(None, args.limit, Fuel)
        IN  /\ \A i \in 1..Len(want) : want[i] \in served
            /\ ~result.isNone
            /\ result.val = ItemsOf(want)
            /\ (nreq < MaxReq => nreq = Len(want))

\* Three pages fetched, the last one ending the data, five or more items.
C1_Witness ==
    /\ GetMarketsDone
    /\ ~data.isNone
    /\ nreq = 3
    /\ Len(result.val) >= 5
    /\ Cardinality(served) = 3

\* C9: every request of a get_markets call goes to /markets with the call's
\* limit, status and series_ticker; the first request has no cursor
\* parameter, and the n-th request (n > 1) carries the cursor that page n-1
\* of the chain returned.
C9_CursorProtocol ==
    (op = "get_markets" /\ nreq >= 1) =>
        LET q == lastReq.params
        IN  /\ lastReq.endpoint = <<"markets">>
            /\ "limit" \in q.keys /\ q.limit = args.limit
            /\ "status" \in q.keys /\ q.status = args.status
            /\ IF args.series_ticker \in {None, ""}
               THEN "series_ticker" \notin q.keys
               ELSE "series_ticker" \in q.keys /\ q.series_ticker = args.series_ticker
            /\ q.keys \subseteq {"limit", "status", "series_ticker", "cursor"}
            /\ (nreq = 1 => "cursor" \notin q.keys)
            /\ (nreq > 1 /\ nreq < MaxReq =>
                   LET before == Chain(None, nreq - 1)
                   IN  /\ Len(before) = nreq - 1
                       /\ "cursor" \in q.keys
                       /\ q.cursor = PageCursor(server[before[nreq - 1]]))

\* A third request carrying the second page's cursor, in a call that follows
\* an earlier call.
C9_Witness ==
    /\ op = "get_markets"
    /\ nreq = 3
    /\ lastReq.params.cursor = "c2"
    /\ args.series_ticker = "KXS"

\* C10: when the k-th request of a get_markets call fails, the call ends
\* there and returns the items of pages 1..k-1 in order (the empty list
\* when k = 1), not None.
C10_PartialResultOnFailure ==
    (op = "get_markets" /\ nreq >= 1 /\ data.isNone) =>
        /\ pc = "done"
        /\ ~result.isNone
        /\ (nreq = 1 => result.val = <<>>)
        /\ (nreq < MaxReq =>
               /\ Len(Chain(None, nreq - 1)) = nreq - 1
               /\ result.val = ItemsOf(Chain(None, nreq - 1)))

\* The third request fails after two pages with items.
C10_Witness ==
    /\ GetMarketsDone
    /\ data.isNone
    /\ nreq = 3
    /\ Len(result.val) >= 3

\* C2 as claimed: after a failed request get_market, get_orderbook and
\* get_series all return None, and one error line is printed.
C2_NullOnFailure ==
    (pc = "done" /\ op \in {"get_market", "get_orderbook", "get_series"} /\ data.isNone) =>
        (result.isNone /\ nerr = 1)

\* C2, amended: after a failed request get_market, get_orderbook and
\* get_series(ticker) return None, get_series() without a ticker returns
\* the empty list, and in each case exactly one error line is printed.
C2_NullOrEmptyOnFailure ==
    (pc = "done" /\ op \in {"get_market", "get_orderbook", "get_series"} /\ data.isNone) =>
        /\ nerr = 1
        /\ nreq = 1
        /\ IF op = "get_series" /\ args.ticker \in {None, ""}
           THEN result = Ret(<<>>)
           ELSE result.isNone

C2_Witness ==
    /\ pc = "done"
    /\ op = "get_series"
    /\ args.ticker = "TKR"
    /\ data.isNone
    /\ result.isNone
    /\ nerr = 1
----------------------------------------------------------------------------
\* Properties of SimpleKalshiClient (checked under DashSpec).

Only429 ==
    /\ Len(dresps) >= 1
    /\ \A i \in 1..Len(dresps) : dresps[i].status = "429"

\* C3 as claimed: any two consecutive HTTP requests of the client are
\* dispatched at least 0.5 s apart, whatever the outcome of each.
C3_PacingInvariant == lastGap = -1 \/ lastGap >= MinInterval

\* C4: when the first response of a safe_request call is a 429 and the
\* second a 200 with a JSON body, the call has ended with exactly two
\* requests, the second to the same endpoint with the same params and
\* dispatched at least 3 s after the first, and it returned that body.
C4_OneRetryThenSuccess ==
    (Len(dresps) >= 2 /\ dresps[1].status = "429" /\ dresps[2].status = "ok") =>
        /\ dpc = "returned"
        /\ Len(dresps) = 2
        /\ Len(dreqs) = 2
        /\ dreqs[1].endpoint = dcall.endpoint
        /\ dreqs[1].params = dcall.params
        /\ dreqs[2].endpoint = dreqs[1].endpoint
        /\ dreqs[2].params = dreqs[1].params
        /\ dreqs[2].gap >= RetryWait
        /\ st_warnings = 1
        /\ st_errors = 0
        /\ ~safe_ret.isNone
        /\ safe_ret.json = dresps[2].body

C4_Witness ==
    /\ dpc = "returned"
    /\ Len(dresps) = 2
    /\ dresps[1].status = "429"
    /\ dresps[2].status = "ok"
    /\ dresps[2].body.keys = {"trades", "cursor"}
    /\ dresult = Ret(<<"x1">>)

\* C5 as claimed: while every response is a 429, the call never returns.
C5_NeverReturns == Only429 => dpc # "returned"

\* C5, amended: while every response is a 429, safe_request has sent one
\* request per frame and, below the interpreter's recursion limit, is about
\* to send another; it returns only when the recursion limit is reached,
\* and then it returns None after reporting an error.
C5_RetriesUpToRecursionLimit ==
    Only429 =>
        /\ Len(dreqs) = depth
        /\ st_warnings = depth
        /\ \A i \in 2..Len(dreqs) :
              /\ dreqs[i].endpoint = dreqs[1].endpoint
              /\ dreqs[i].params = dreqs[1].params
              /\ dreqs[i].gap >= RetryWait
        /\ (depth < RecursionLimit => dpc = "retry")
        /\ (dpc = "returned" =>
               /\ depth = RecursionLimit
               /\ safe_ret.isNone
               /\ st_errors >= 1)

C5_Witness ==
    /\ Only429
    /\ dpc = "returned"
    /\ Len(dreqs) = RecursionLimit
    /\ safe_ret.isNone
----------------------------------------------------------------------------
\* C6 (checked under MainSpec): when API_KEY is None or empty, main goes
\* from its first statement to its return and nowhere else: no client
\* method is called and no HTTP request is sent.
C6_NoRequestWithoutKey ==
    API_KEY \in {None, ""} =>
        /\ mainPc \in {"start", "returned"}
        /\ op = "none"
        /\ pc = "idle"
        /\ nreq = 0
        /\ lastReq = NoReq

C6_Witness ==
    /\ API_KEY \in {None, ""}
    /\ mainPc = "returned"
    /\ lastReq = NoReq

----------------------------------------------------------------------------
\* Properties of get_trades (checked under TradesSpec).

TradesOf(d) ==
    IF ~d.isNone /\ "trades" \in d.json.keys THEN Ret(d.json.val) ELSE Ret(<<>>)

CliTradesSinglePage ==
    (op = "get_trades" /\ pc = "done") =>
        /\ nreq = 1
        /\ lastReq.endpoint = <<"markets", "trades">>
        /\ "cursor" \notin lastReq.params.keys
        /\ result = TradesOf(data)

\* C7 as claimed: every get_trades call, of either client, sends exactly one
\* request, to /markets/trades and without a cursor, and returns that
\* response's trades (the empty list on failure).
C7_ExactlyOneRequest ==
    /\ CliTradesSinglePage
    /\ (dcall.method = "get_trades" /\ dpc = "returned") =>
          /\ Len(dreqs) = 1
          /\ dreqs[1].endpoint = <<"markets", "trades">>
          /\ "cursor" \notin dreqs[1].params.keys
          /\ dresult = TradesOf(safe_ret)

\* C7, amended: KalshiClient.get_trades sends exactly one request;
\* SimpleKalshiClient.get_trades sends one request and one more for every
\* 429 it is answered with; every request goes to /markets/trades with the
\* same params and no cursor, and the call returns the trades of the last
\* response (the empty list on failure or when the body has none).
C7_SinglePageFetch ==
    /\ CliTradesSinglePage
    /\ (dcall.method = "get_trades" /\ Len(dreqs) >= 1) =>
          /\ \A i \in 1..Len(dreqs) :
                /\ dreqs[i].endpoint = <<"markets", "trades">>
                /\ "cursor" \notin dreqs[i].params.keys
                /\ dreqs[i].params = dreqs[1].params
          /\ \A i \in 1..(Len(dresps) - 1) : dresps[i].status = "429"
          /\ (dpc = "returned" =>
                dresult = IF dresps[Len(dresps)].status = "ok"
                          THEN TradesOf(JsonData(dresps[Len(dresps)].body))
                          ELSE Ret(<<>>))

\* Both clients have fetched trades from a body that carries a cursor, the
\* dashboard client after one 429.
C7_Witness ==
    /\ op = "get_trades" /\ pc = "done"
    /\ ~data.isNone /\ data.json.keys = {"trades", "cursor"}
    /\ Len(result.val) = 2
    /\ dcall.method = "get_trades" /\ dpc = "returned"
    /\ Len(dreqs) = 2
    /\ dresps[2].status = "ok" /\ dresps[2].body.keys = {"trades", "cursor"}
    /\ dresult = Ret(<<"x1">>)

----------------------------------------------------------------------------
\* C8 as claimed (checked under FairSpec): every get_markets call that has
\* entered its loop returns, whatever the server answers.
C8_AlwaysTerminates == (pc = "loop") ~> (pc = "done")
====
